---- MODULE Spec2Model ----
(***************************************************************************)
(* Feature applicators of openstf/feature_engineering/feature_applicator.py *)
(*                                                                         *)
(* An applicator is constructed with (horizons, feature_names) and then    *)
(* add_features is called on it, any number of times.  A DataFrame is a    *)
(* record [cols, rows]: cols is the set of column labels, rows the         *)
(* sequence of rows in frame order; a row carries its index label (the     *)
(* timestamp), its cells (one value per column) and src = <<call, pos>>,   *)
(* the collaborator call and input position it was created from.           *)
(*                                                                         *)
(* Horizons and latency thresholds are hours in the source (0.25, 24, 47); *)
(* the model counts them in quarter hours (1, 96, 188), which keeps every  *)
(* comparison between them unchanged.                                      *)
(***************************************************************************)
EXTENDS Integers, Sequences, FiniteSets, TLC

VARIABLES variant, argHorizons, argFeatureNames, horizons, feature_names,
          pc, df, latency_config, resp, trace, result, error

vars == <<variant, argHorizons, argFeatureNames, horizons, feature_names,
          pc, df, latency_config, resp, trace, result, error>>

-----------------------------------------------------------------------------
(* Bounds of the explored inputs *)

\* longest horizon list given to a constructor
MaxHorizons == 2
\* most rows of an input table
MaxRows == 2

-----------------------------------------------------------------------------
(* Python values *)

\* np.nan, the missing value of a cell
NaN == -1

\* a Python object as far as __init__ looks at it: its type and, for a list,
\* its items (a float keeps its value as the single item)
PyNone == [type |-> "NoneType", items |-> <<>>]
PyList(s) == [type |-> "list", items |-> s]
PyFloat(x) == [type |-> "float", items |-> <<x>>]
\* the attribute does not exist yet (before __init__ has assigned it)
Unset == [type |-> "unset", items |-> <<>>]

\* bool(v) for the objects above: None and the empty list are falsy
Truthy(v) ==
    CASE v.type = "NoneType" -> FALSE
      [] v.type = "list" -> v.items # <<>>
      [] v.type = "float" -> v.items[1] # 0
      [] OTHER -> TRUE

\* the horizons that occur in lists: 0.25 h, 24 h and 47 h, in quarter hours
HorizonValues == {1, 96, 188}

RECURSIVE SeqsUpTo(_, _)
SeqsUpTo(S, n) ==
    IF n = 0 THEN {<<>>}
    ELSE LET shorter == SeqsUpTo(S, n - 1)
         IN  shorter \cup {Append(s, x) : s \in {t \in shorter : Len(t) = n - 1}, x \in S}

\* the values a caller passes as horizons: None, a single number, or a list
HorizonArgs ==
    {PyNone, PyFloat(96)} \cup {PyList(s) : s \in SeqsUpTo(HorizonValues, MaxHorizons)}

\* the values a caller passes as feature_names: None or a list of names
FeatureNameArgs ==
    {PyNone, PyList(<<"T-720min", "APX">>), PyList(<<"load", "T-720min">>)}

Range(s) == {s[i] : i \in DOMAIN s}

-----------------------------------------------------------------------------
(* LATENCY_CONFIG and the latency configurations a caller passes: a dict is *)
(* the sequence of its (feature, time) items in insertion order             *)

LATENCY_CONFIG == << <<"APX", 96>> >>

LatencyConfigs ==
    {LATENCY_CONFIG, << <<"T-720min", 1>>, <<"APX", 96>> >>, <<>>}

-----------------------------------------------------------------------------
(* AbstractFeatureApplicator.__init__ *)

\* `type(horizons) is not list and not None`: `not None` is evaluated on the
\* constant None, not on horizons
RejectsHorizonsNoCheck(h) == h.type # "list" /\ Truthy(PyNone)

RejectsHorizons(h) == h.type # "list" /\ ~Truthy(PyNone)

NoError == [type |-> "none", msg |-> <<>>]
ValueError(msg) == [type |-> "ValueError", msg |-> msg]
KeyError(key) == [type |-> "KeyError", msg |-> <<key>>]

-----------------------------------------------------------------------------
(* DataFrames *)

\* pd.DataFrame()
EmptyFrame == [cols |-> {}, rows |-> <<>>]

\* the timestamps of input rows, and the input tables: any row order, the
\* same timestamp possibly twice, at least one row
TimeStamps == {1, 2}
InputTables == SeqsUpTo(TimeStamps, MaxRows) \ {<<>>}

\* a row with cells for exactly the columns cs: cells it lacks are NaN
Reindex(row, cs) ==
    [row EXCEPT !.cells = [c \in cs |-> IF c \in DOMAIN row.cells THEN row.cells[c] ELSE NaN]]

\* frame[col] = value: the column is created or overwritten on every row
SetColumn(frame, col, value) ==
    [cols |-> frame.cols \cup {col},
     rows |-> [i \in DOMAIN frame.rows |->
                 [frame.rows[i] EXCEPT !.cells =
                     [c \in frame.cols \cup {col} |->
                         IF c = col THEN value ELSE frame.rows[i].cells[c]]]]]

\* DataFrame.append keeping only the appended frame (`result = res`)
FrameAppendOverwrite(a, b) == b

\* a.append(b): the rows of a, then the rows of b, over the union of the
\* columns; no row is merged or dropped, whatever its index label
FrameAppend(a, b) ==
    LET cs == a.cols \cup b.cols
    IN  [cols |-> cs,
         rows |-> [i \in DOMAIN a.rows |-> Reindex(a.rows[i], cs)]
                  \o [i \in DOMAIN b.rows |-> Reindex(b.rows[i], cs)]]

\* x > y on floats: every comparison with NaN is False
Greater(x, y) == x # NaN /\ y # NaN /\ x > y

\* `Horizon >= time` in place of `Horizon > time`
LocSetNaNInclusive(frame, time, feature) ==
    LET grown == IF feature \in frame.cols THEN frame ELSE SetColumn(frame, feature, NaN)
    IN  [grown EXCEPT !.rows =
            [i \in DOMAIN grown.rows |->
                IF ~Greater(time, grown.rows[i].cells["Horizon"])
                THEN [grown.rows[i] EXCEPT !.cells[feature] = NaN]
                ELSE grown.rows[i]]]

\* the assignment touching existing columns only
LocSetNaNNoEnlarge(frame, time, feature) ==
    IF feature \notin frame.cols THEN frame
    ELSE [frame EXCEPT !.rows =
            [i \in DOMAIN frame.rows |->
                IF Greater(frame.rows[i].cells["Horizon"], time)
                THEN [frame.rows[i] EXCEPT !.cells[feature] = NaN]
                ELSE frame.rows[i]]]

\* frame.loc[frame["Horizon"] > time, feature] = np.nan, on a frame that has
\* rows and a Horizon column: a feature that is no column yet becomes one,
\* NaN on every row (setting with enlargement), then the masked rows are set
LocSetNaN(frame, time, feature) ==
    LET grown == IF feature \in frame.cols THEN frame ELSE SetColumn(frame, feature, NaN)
    IN  [grown EXCEPT !.rows =
            [i \in DOMAIN grown.rows |->
                IF Greater(grown.rows[i].cells["Horizon"], time)
                THEN [grown.rows[i] EXCEPT !.cells[feature] = NaN]
                ELSE grown.rows[i]]]

\* row put into an ascending sequence, behind the rows of the same label
RECURSIVE InsertByIndex(_, _)
InsertByIndex(row, sorted) ==
    IF sorted = <<>> THEN <<row>>
    ELSE IF row.idx < Head(sorted).idx THEN <<row>> \o sorted
    ELSE <<Head(sorted)>> \o InsertByIndex(row, Tail(sorted))

RECURSIVE SortRows(_)
SortRows(rows) ==
    IF rows = <<>> THEN <<>>
    ELSE InsertByIndex(rows[Len(rows)], SortRows(SubSeq(rows, 1, Len(rows) - 1)))

\* a return without the sort
SortIndexSkipped(frame) == frame

\* frame.sort_index(): the rows ascending by index label (rows of one label
\* keep their frame order here; no property below reads that order)
SortIndex(frame) == [frame EXCEPT !.rows = SortRows(frame.rows)]

-----------------------------------------------------------------------------
(* The collaborators of openstf.feature_engineering *)

\* What the feature computation does in one add_features call: the features
\* it can produce, whether it leaves the lagged load T-720min out for the
\* horizons at which that load is not known yet (beyond 12 h), and whether
\* the lagged load of the first input row is missing.
Features == {"T-720min", "APX"}
Behaviours == [produced : SUBSET Features, dropLag : BOOLEAN, nanFirst : BOOLEAN]

\* the value computed for input row pos in collaborator call number call
Measure(call, pos) == 10 * call + pos

\* apply_features(table, feature_names=fnames, horizon=horizon): a frame with
\* the row index of the input, the input's load column and the added
\* feature columns, which need not respect the fnames filter
apply_features(b, table, fnames, horizon, call) ==
    LET cs == {"load"} \cup
              (b.produced \ (IF b.dropLag /\ horizon > 48 THEN {"T-720min"} ELSE {}))
    IN  [cols |-> cs,
         rows |-> [p \in DOMAIN table |->
                     [idx |-> table[p],
                      src |-> <<call, p>>,
                      cells |-> [c \in cs |->
                                   IF c = "T-720min" /\ b.nanFirst /\ p = 1
                                   THEN NaN ELSE Measure(call, p)]]]]

\* add_missing_feature_columns(frame, names): every name that is no column
\* becomes one, missing on every row
RECURSIVE add_missing_feature_columns(_, _)
add_missing_feature_columns(frame, names) ==
    IF names = <<>> THEN frame
    ELSE LET rest == add_missing_feature_columns(frame, SubSeq(names, 1, Len(names) - 1))
             name == names[Len(names)]
         IN  IF name \in rest.cols THEN rest ELSE SetColumn(rest, name, NaN)

\* remove_extra_feature_columns(frame, names): the columns not named are dropped
remove_extra_feature_columns(frame, names) ==
    [cols |-> frame.cols \cap Range(names),
     rows |-> [i \in DOMAIN frame.rows |-> Reindex(frame.rows[i], frame.cols \cap Range(names))]]

\* the entries of the call log
ApplyCall(fnames, horizon) ==
    [fn |-> "apply_features", feature_names |-> fnames, horizon |-> <<horizon>>]
ReconcileCall(fn, fnames) ==
    [fn |-> fn, feature_names |-> fnames, horizon |-> <<>>]

\* what one add_features call did: what it returned or raised, the value of
\* self.horizons it left, the frames the collaborator returned and the calls made
Returned(frame, hs, frames, calls) ==
    [pc |-> "returned", result |-> frame, error |-> NoError, horizons |-> hs,
     resp |-> frames, trace |-> calls]
Raised(err, hs, frames, calls) ==
    [pc |-> "raised", result |-> EmptyFrame, error |-> err, horizons |-> hs,
     resp |-> frames, trace |-> calls]

-----------------------------------------------------------------------------
(* TrainFeatureApplicator.add_features *)

\* self.horizons after `if self.horizons is None: self.horizons = [0.25, 24]`
EffectiveHorizons(hs) == IF hs.type = "NoneType" THEN PyList(<<1, 96>>) ELSE hs

\* the loop over self.horizons, up to and including horizon number j
RECURSIVE TrainLoop(_, _, _, _, _)
TrainLoop(b, table, fnames, hs, j) ==
    IF j = 0 THEN EmptyFrame
    ELSE FrameAppend(TrainLoop(b, table, fnames, hs, j - 1),
                     SetColumn(apply_features(b, table, fnames, hs[j], j), "Horizon", hs[j]))

\* the loop over latency_config.items(), up to and including item number k
RECURSIVE Invalidate(_, _, _)
Invalidate(frame, config, k) ==
    IF k = 0 THEN frame
    ELSE LocSetNaN(Invalidate(frame, config, k - 1), config[k][2], config[k][1])

TrainAddFeatures(b, table, fnames, selfHorizons, config) ==
    LET hs == EffectiveHorizons(selfHorizons)
        frames == [j \in DOMAIN hs.items |-> apply_features(b, table, fnames, hs.items[j], j)]
        calls == [j \in DOMAIN hs.items |-> ApplyCall(fnames, hs.items[j])]
        concat == TrainLoop(b, table, fnames, hs.items, Len(hs.items))
    IN  IF config # <<>> /\ "Horizon" \notin concat.cols
        THEN \* result["Horizon"] on the empty DataFrame of an empty horizon list
             Raised(KeyError("Horizon"), hs, frames, calls)
        ELSE Returned(SortIndex(Invalidate(concat, config, Len(config))), hs, frames, calls)

-----------------------------------------------------------------------------
(* OperationalPredictFeatureApplicator.add_features and                    *)
(* BackTestPredictFeatureApplicator.add_features                           *)

\* "Expected one horizon, got {num_horizons}": a plain string literal, in
\* which {num_horizons} stands for itself.  A message is the sequence of its
\* pieces.
ExpectedOneHorizon(num_horizons) == <<"Expected one horizon, got ", "{num_horizons}">>

\* the reconciliation without the removal of the extra columns
ReconcileAddOnly(frame, fnames) == add_missing_feature_columns(frame, fnames.items)

\* add_missing_feature_columns, then remove_extra_feature_columns
Reconcile(frame, fnames) ==
    remove_extra_feature_columns(add_missing_feature_columns(frame, fnames.items),
                                 fnames.items)

ReconcileCalls(fnames) ==
    <<ReconcileCall("add_missing_feature_columns", fnames),
      ReconcileCall("remove_extra_feature_columns", fnames)>>

OperationalAddFeatures(b, table, fnames, selfHorizons) ==
    LET num_horizons == Len(selfHorizons.items)
    IN  IF num_horizons # 1
        THEN Raised(ValueError(ExpectedOneHorizon(num_horizons)), selfHorizons, <<>>, <<>>)
        ELSE LET frame == apply_features(b, table, fnames, selfHorizons.items[1], 1)
             IN  Returned(Reconcile(frame, fnames), selfHorizons, <<frame>>,
                          <<ApplyCall(fnames, selfHorizons.items[1])>> \o ReconcileCalls(fnames))

\* the back test handing its feature_names on to the collaborator
BackTestFilterPassed(fnames) == fnames

\* apply_features(df, horizon=...): feature_names is left at its default
BackTestFilter(fnames) == PyNone

BackTestAddFeatures(b, table, fnames, selfHorizons) ==
    LET num_horizons == Len(selfHorizons.items)
    IN  IF num_horizons # 1
        THEN Raised(ValueError(ExpectedOneHorizon(num_horizons)), selfHorizons, <<>>, <<>>)
        ELSE LET frame == apply_features(b, table, BackTestFilter(fnames),
                                         selfHorizons.items[1], 1)
             IN  Returned(Reconcile(frame, fnames), selfHorizons, <<frame>>,
                          <<ApplyCall(BackTestFilter(fnames), selfHorizons.items[1])>>
                              \o ReconcileCalls(fnames))

-----------------------------------------------------------------------------
(* The state machine *)

Init ==
    /\ variant \in {"train", "operational", "backtest"}
    /\ argHorizons \in HorizonArgs
    /\ argFeatureNames \in FeatureNameArgs
    \* the column reconciliation of the predict variants is specified for a
    \* supplied feature_names list only
    /\ variant # "train" => argFeatureNames.type = "list"
    /\ horizons = Unset
    /\ feature_names = Unset
    /\ pc = "start"
    /\ df = <<>>
    /\ latency_config = <<>>
    /\ resp = <<>>
    /\ trace = <<>>
    /\ result = EmptyFrame
    /\ error = NoError

\* AbstractFeatureApplicator.__init__, which the three variants inherit
Construct ==
    /\ pc = "start"
    /\ IF RejectsHorizons(argHorizons)
       THEN /\ pc' = "ctor_error"
            /\ error' = ValueError(<<"Horizons must be added as a list">>)
            /\ UNCHANGED <<horizons, feature_names>>
       ELSE /\ pc' = "ready"
            /\ feature_names' = argFeatureNames
            /\ horizons' = argHorizons
            /\ UNCHANGED error
    /\ UNCHANGED <<variant, argHorizons, argFeatureNames, df, latency_config,
                   resp, trace, result>>

\* add_features can be called on a constructed instance that is not inside a call
Callable == pc = "ready"

Finish(out) ==
    /\ pc' = out.pc
    /\ result' = out.result
    /\ error' = out.error
    /\ horizons' = out.horizons
    /\ resp' = out.resp
    /\ trace' = out.trace

TrainCall ==
    /\ Callable
    /\ variant = "train"
    /\ \E table \in InputTables, config \in LatencyConfigs, b \in Behaviours :
          /\ df' = table
          /\ latency_config' = config
          /\ Finish(TrainAddFeatures(b, table, feature_names, horizons, config))
    /\ UNCHANGED <<variant, argHorizons, argFeatureNames, feature_names>>

OperationalCall ==
    /\ Callable
    /\ variant = "operational"
    /\ \E table \in InputTables, b \in Behaviours :
          /\ df' = table
          /\ Finish(OperationalAddFeatures(b, table, feature_names, horizons))
    /\ UNCHANGED <<variant, argHorizons, argFeatureNames, feature_names, latency_config>>

BackTestCall ==
    /\ Callable
    /\ variant = "backtest"
    /\ \E table \in InputTables, b \in Behaviours :
          /\ df' = table
          /\ Finish(BackTestAddFeatures(b, table, feature_names, horizons))
    /\ UNCHANGED <<variant, argHorizons, argFeatureNames, feature_names, latency_config>>

\* The caller goes on after a call has returned or raised: the frame or the
\* exception of that call is dropped, the instance keeps its attributes and
\* can be called again.
CallerContinues ==
    /\ pc \in {"returned", "raised"}
    /\ pc' = "ready"
    /\ df' = <<>>
    /\ latency_config' = <<>>
    /\ resp' = <<>>
    /\ trace' = <<>>
    /\ result' = EmptyFrame
    /\ error' = NoError
    /\ UNCHANGED <<variant, argHorizons, argFeatureNames, horizons, feature_names>>

Next == Construct \/ TrainCall \/ OperationalCall \/ BackTestCall \/ CallerContinues

Spec == Init /\ [][Next]_vars

-----------------------------------------------------------------------------
(* Properties *)

Predict == variant \in {"operational", "backtest"}
TrainReturned == variant = "train" /\ pc = "returned"
PredictReturned == Predict /\ pc = "returned"
Called == pc \in {"returned", "raised"}

Rows == DOMAIN result.rows
\* the collaborator's frame and row an output row was made from, and the
\* horizon of that collaborator call
FrameOf(row) == resp[row.src[1]]
SourceRow(row) == FrameOf(row).rows[row.src[2]]
HorizonOf(row) == horizons.items[row.src[1]]

\* C1: an applicator of any variant given horizons that are neither a list
\* nor None never gets past its constructor: __init__ raises ValueError, the
\* instance never holds that value and add_features is never reached.
C1_NonListHorizonsRejected ==
    (argHorizons.type \notin {"list", "NoneType"} /\ pc # "start")
        => /\ pc = "ctor_error"
           /\ error.type = "ValueError"
           /\ horizons = Unset

C1_Witness == pc = "ctor_error" /\ argHorizons = PyFloat(96) /\ variant = "backtest"

\* C2: a training applicator given horizons = None is accepted by the
\* constructor, and once add_features has been called its horizons are
\* [0.25, 24].
C2_NoneHorizonsDefaulted ==
    (variant = "train" /\ argHorizons = PyNone /\ pc # "start")
        => /\ pc # "ctor_error"
           /\ Called => horizons = PyList(<<1, 96>>)

\* C3: add_features of the operational and the back test variant on a horizon
\* list whose length is not 1 raises ValueError with a message that contains
\* the number of horizons.
C3_MessageReportsCount ==
    (Predict /\ Called /\ Len(horizons.items) # 1)
        => /\ pc = "raised"
           /\ error.type = "ValueError"
           /\ ToString(Len(horizons.items)) \in Range(error.msg)

\* C4: with one horizon and a feature_names list, the columns returned by the
\* operational and the back test variant are exactly the requested names,
\* whatever the collaborator produced: a requested column it did not produce
\* is missing on every row, and no other column is left.
C4_ColumnsAreRequested ==
    PredictReturned
        => /\ result.cols = Range(feature_names.items)
           /\ \A i \in Rows :
                /\ DOMAIN result.rows[i].cells = Range(feature_names.items)
                /\ \A c \in Range(feature_names.items) \ resp[1].cols :
                      result.rows[i].cells[c] = NaN

C4_Witness ==
    /\ variant = "operational" /\ pc = "returned"
    /\ horizons = PyList(<<1>>)
    /\ feature_names = PyList(<<"T-720min", "APX">>)
    /\ resp[1].cols = {"load", "T-720min"}
    /\ Len(result.rows) = 2
    /\ \A i \in Rows : result.rows[i].cells["APX"] = NaN

\* C5: for a non-empty horizon list the training variant returns
\* n * (number of horizons) rows for an input of n rows: every horizon
\* contributes each input row exactly once, under the input's index label and
\* tagged with that horizon, so every Horizon cell is a configured horizon.
C5_OneCopyPerHorizon ==
    (TrainReturned /\ Len(horizons.items) >= 1)
        => /\ Len(result.rows) = Len(df) * Len(horizons.items)
           /\ \A j \in DOMAIN horizons.items, p \in DOMAIN df :
                \E i \in Rows :
                   /\ result.rows[i].src = <<j, p>>
                   /\ result.rows[i].idx = df[p]
                   /\ result.rows[i].cells["Horizon"] = horizons.items[j]
                   /\ \A k \in Rows : result.rows[k].src = <<j, p>> => k = i
           /\ \A i \in Rows : result.rows[i].cells["Horizon"] \in Range(horizons.items)

C5_Witness ==
    /\ TrainReturned
    /\ horizons = PyList(<<1, 188>>)
    /\ Len(df) = 2
    /\ Len(result.rows) = 4
    /\ \E i, k \in Rows : /\ result.rows[i].idx = result.rows[k].idx
                          /\ result.rows[i].cells["Horizon"] = 1
                          /\ result.rows[k].cells["Horizon"] = 188

\* C6: in the training variant's output, a latency feature the collaborator
\* produced for a row is missing where the row's Horizon is greater than the
\* feature's threshold, and is the collaborator's value where the Horizon is
\* less than or equal to it.
C6_LatencyInvalidation ==
    TrainReturned
        => \A k \in DOMAIN latency_config, i \in Rows :
              LET feature == latency_config[k][1]
                  time == latency_config[k][2]
                  row == result.rows[i]
              IN  feature \in FrameOf(row).cols
                     => IF row.cells["Horizon"] > time
                        THEN row.cells[feature] = NaN
                        ELSE row.cells[feature] = SourceRow(row).cells[feature]

C6_Witness ==
    /\ TrainReturned
    /\ \E k \in DOMAIN latency_config, i, n \in Rows :
          LET feature == latency_config[k][1]
              time == latency_config[k][2]
          IN  /\ feature \in FrameOf(result.rows[i]).cols
              /\ feature \in FrameOf(result.rows[n]).cols
              /\ result.rows[i].cells["Horizon"] > time
              /\ SourceRow(result.rows[i]).cells[feature] # NaN
              /\ result.rows[i].cells[feature] = NaN
              /\ result.rows[n].cells["Horizon"] = time
              /\ result.rows[n].cells[feature] # NaN

C7_Scenario ==
    /\ TrainReturned
    /\ horizons = PyList(<<1, 96>>)
    /\ latency_config = LATENCY_CONFIG

\* C7 as claimed: with horizons [0.25, 24] and the default latency
\* configuration, APX is missing on every row tagged Horizon = 24 and is the
\* collaborator's value on every row tagged Horizon = 0.25.
C7_ApxMissingAtThreshold ==
    C7_Scenario
        => \A i \in Rows :
              LET row == result.rows[i]
              IN  /\ row.cells["Horizon"] = 96 => row.cells["APX"] = NaN
                  /\ (row.cells["Horizon"] = 1 /\ "APX" \in FrameOf(row).cols)
                        => row.cells["APX"] = SourceRow(row).cells["APX"]

\* C7 as amended: with horizons [0.25, 24] and the default latency
\* configuration, APX is the collaborator's value on every row, those tagged
\* Horizon = 24 as well as those tagged Horizon = 0.25, because 24 is not
\* greater than the threshold 24.
C7_ApxKeptAtThreshold ==
    C7_Scenario
        => \A i \in Rows :
              LET row == result.rows[i]
              IN  "APX" \in FrameOf(row).cols
                     => row.cells["APX"] = SourceRow(row).cells["APX"]

C7_Witness ==
    /\ C7_Scenario
    /\ \E i, k \in Rows :
          /\ result.rows[i].cells["Horizon"] = 96
          /\ result.rows[i].cells["APX"] = Measure(2, result.rows[i].src[2])
          /\ result.rows[k].cells["Horizon"] = 1
          /\ result.rows[k].cells["APX"] = Measure(1, result.rows[k].src[2])

\* C8: the frame the training variant returns is ascending by index label:
\* of two consecutive rows the first has the smaller or the same timestamp.
C8_SortedByIndex ==
    TrainReturned
        => \A i \in Rows :
              i + 1 \in Rows => result.rows[i].idx <= result.rows[i + 1].idx

C8_Witness ==
    /\ TrainReturned
    /\ df = <<2, 1>>
    /\ Len(horizons.items) = 2
    /\ [i \in Rows |-> result.rows[i].idx] = <<1, 1, 2, 2>>

\* C9: with one horizon, the back test variant calls the collaborator once,
\* with that horizon and no feature_names filter, the operational variant
\* once with that horizon and its feature_names; both then add the missing
\* and remove the extra columns for their feature_names, and do nothing else:
\* the rows are the collaborator's rows in its order, and every column kept
\* holds the collaborator's values.
C9_PredictCallSequence ==
    PredictReturned
        => /\ trace = <<ApplyCall(IF variant = "backtest" THEN PyNone ELSE feature_names,
                                  horizons.items[1]),
                        ReconcileCall("add_missing_feature_columns", feature_names),
                        ReconcileCall("remove_extra_feature_columns", feature_names)>>
           /\ Len(result.rows) = Len(df)
           /\ \A i \in Rows :
                /\ result.rows[i].idx = df[i]
                /\ result.rows[i].src = <<1, i>>
                /\ \A c \in result.cols \cap resp[1].cols :
                      result.rows[i].cells[c] = resp[1].rows[i].cells[c]

C9_Witness ==
    /\ variant = "backtest" /\ pc = "returned"
    /\ df = <<2, 1>>
    /\ trace[1] = ApplyCall(PyNone, 188)
    /\ feature_names.type = "list"
    /\ "APX" \in result.cols \cap resp[1].cols

\* the latency features no collaborator call of this add_features produced
NotProduced ==
    {latency_config[k][1] : k \in DOMAIN latency_config}
        \ UNION {resp[j].cols : j \in DOMAIN resp}

\* C10: in the training variant, a latency feature the collaborator did not
\* produce is a column of the output all the same, missing on every row, also
\* where Horizon is within the threshold; the output columns are the
\* collaborator's columns, Horizon and the latency features.
C10_UnproducedLatencyColumn ==
    (TrainReturned /\ Len(horizons.items) >= 1)
        => /\ \A f \in NotProduced :
                /\ f \in result.cols
                /\ \A i \in Rows : result.rows[i].cells[f] = NaN
           /\ result.cols = UNION {resp[j].cols : j \in DOMAIN resp}
                              \cup {"Horizon"}
                              \cup {latency_config[k][1] : k \in DOMAIN latency_config}
           /\ \A i \in Rows : DOMAIN result.rows[i].cells = result.cols

C10_Witness ==
    /\ TrainReturned
    /\ "APX" \in NotProduced
    /\ latency_config = LATENCY_CONFIG
    /\ \E i \in Rows : /\ result.rows[i].cells["Horizon"] = 1
                       /\ result.rows[i].cells["APX"] = NaN

====
